---- MODULE Spec2Model ----
(***************************************************************************)
(* rew2streammagic: the REW equalizer file parser (parse_eq_file), the    *)
(* StreamMagic device session (connect_and_apply_eq) and the driver (main, *)
(* cli) of src/rew2streammagic/main.py.                                    *)
(*                                                                         *)
(* Text is modelled at token level. A line of the file is a record of the  *)
(* tokens the band pattern looks at; a numeric literal is the sequence of  *)
(* its characters, so that float() and int() are computed from the         *)
(* characters and can fail. A float value is kept in tenths (one decimal   *)
(* digit), which is exact for every literal of the model.                  *)
(***************************************************************************)
EXTENDS Integers, Sequences, FiniteSets, TLC

VARIABLES
    ppc,          \* parse_eq_file: "open", "scan", "returned", "raised"
    file,         \* the lines of the file read so far, in order
    rest,         \* the lines of the file that were never read
    bands,        \* the local list `bands`
    perr,         \* the exception parse_eq_file raised, or "none"
    pc,           \* connect_and_apply_eq: position in the coroutine
    host,         \* the host argument
    user_eq,      \* the band collection handed to connect_and_apply_eq
    api_version,  \* info.api_version as reported by the device
    calls,        \* the device and session operations attempted, in order
    applied,      \* the payloads the device received in set_equalizer_params
    failure,      \* the exception raised inside the coroutine, with its stage
    result,       \* "pending", "True", "False", or "raised" (propagated)
    mpc,          \* main and cli: "start", "parse", "session", "cli", "done"
    dry_run,      \* the --dry-run flag
    exists,       \* eq_file.exists()
    main_ret,     \* what main returned: "pending", "0", "1", or "raised"
    exit_code     \* what cli passed to sys.exit: "pending", "0", "1"

parseVars == <<ppc, file, rest, bands, perr>>
sessionVars == <<pc, host, user_eq, api_version, calls, applied, failure, result>>
mainVars == <<mpc, dry_run, exists, main_ret, exit_code>>
vars == <<ppc, file, rest, bands, perr,
          pc, host, user_eq, api_version, calls, applied, failure, result,
          mpc, dry_run, exists, main_ret, exit_code>>

----------------------------------------------------------------------------
(* Bounds *)

\* the longest file the scan is run on
MaxLines == 8

\* the positions of a file at which LineGainOnly and LineQOnly are tried
ClauseLinesUpTo == 1

\* the longest file main is run on
MaxMainLines == 2

(* Program constants *)

\* the cap of line 69: len(bands) == 7
MaxBands == 7

----------------------------------------------------------------------------
(* Characters and numeric literals *)

Digits == {"0", "1", "2", "3", "4", "5", "6", "7", "8", "9"}

DigitVal(c) ==
    CASE c = "0" -> 0 [] c = "1" -> 1 [] c = "2" -> 2 [] c = "3" -> 3
      [] c = "4" -> 4 [] c = "5" -> 5 [] c = "6" -> 6 [] c = "7" -> 7
      [] c = "8" -> 8 [] c = "9" -> 9

DigitChar(n) ==
    CASE n = 0 -> "0" [] n = 1 -> "1" [] n = 2 -> "2" [] n = 3 -> "3"
      [] n = 4 -> "4" [] n = 5 -> "5" [] n = 6 -> "6" [] n = 7 -> "7"
      [] n = 8 -> "8" [] n = 9 -> "9"

\* the decimal numeral of n, as the file writes a filter number
Numeral(n) ==
    IF n < 10 THEN <<DigitChar(n)>>
    ELSE <<DigitChar(n \div 10), DigitChar(n % 10)>>

AllIn(s, cs) == \A i \in 1..Len(s) : s[i] \in cs

Count(s, c) == Cardinality({i \in 1..Len(s) : s[i] = c})

RECURSIVE DigitsToNat(_)
\* int() of a string of decimal digits
DigitsToNat(s) ==
    IF Len(s) = 0 THEN 0
    ELSE 10 * DigitsToNat(SubSeq(s, 1, Len(s) - 1)) + DigitVal(s[Len(s)])

\* the index of the first "." of s, or Len(s) + 1
DotPos(s) ==
    IF Count(s, ".") = 0 THEN Len(s) + 1
    ELSE CHOOSE i \in 1..Len(s) :
            s[i] = "." /\ \A j \in 1..(i - 1) : s[j] # "."

\* float(s) succeeds: an optional sign, digits with at most one point, and
\* at least one digit (the pattern lets only digits, "." and "-" through)
FloatOK(s) ==
    LET body == IF Len(s) > 0 /\ s[1] = "-" THEN Tail(s) ELSE s
    IN  /\ AllIn(body, Digits \cup {"."})
        /\ Count(body, ".") <= 1
        /\ \E i \in 1..Len(body) : body[i] \in Digits

\* float(s) in tenths, for a literal FloatOK accepts
FloatTenths(s) ==
    LET neg  == Len(s) > 0 /\ s[1] = "-"
        body == IF neg THEN Tail(s) ELSE s
        d    == DotPos(body)
        ip   == DigitsToNat(SubSeq(body, 1, d - 1))
        fp   == IF d + 1 <= Len(body) THEN DigitVal(body[d + 1]) ELSE 0
        mag  == 10 * ip + fp
    IN  IF neg THEN 0 - mag ELSE mag

\* int(x) of a float x kept in tenths: truncation toward zero
IntTrunc(t) == IF t >= 0 THEN t \div 10 ELSE 0 - ((0 - t) \div 10)

----------------------------------------------------------------------------
(* The file: lines as the tokens band_pattern looks at *)

\* an optional clause: <<>> when the line has no such clause, <<literal>> else
NoClause == <<>>

Clause(lit) == <<lit>>

Line(head, num, status, code, fc, gain, q) ==
    [head |-> head, num |-> num, status |-> status, code |-> code,
     fc |-> fc, gain |-> gain, q |-> q]

\* "Filter <n>: ON PK Fc 100Hz Gain 0dB Q 1.5", numbered by its position
LineSeq(n) ==
    Line("Filter", Numeral(n), "ON", "PK", <<"1", "0", "0">>,
         Clause(<<"0">>), Clause(<<"1", ".", "5">>))

\* "Filter 3: ON HIGHPASS Fc 99.9Hz": canonical name, no Gain, no Q
LineCanon ==
    Line("Filter", <<"3">>, "ON", "HIGHPASS", <<"9", "9", ".", "9">>,
         NoClause, NoClause)

\* "Filter 2: OFF PK Fc 100Hz Gain 0dB Q 1": a disabled band
LineOff ==
    Line("Filter", <<"2">>, "OFF", "PK", <<"1", "0", "0">>,
         Clause(<<"0">>), Clause(<<"1">>))

\* "Filter 4: ON XX Fc 100Hz Gain -3.5dB": a code EQFilterType does not have
LineUnknown ==
    Line("Filter", <<"4">>, "ON", "XX", <<"1", "0", "0">>,
         Clause(<<"-", "3", ".", "5">>), NoClause)

\* "Filter 5: ON PK Fc 1.2.3Hz": malformed frequency
LineBadFc ==
    Line("Filter", <<"5">>, "ON", "PK", <<"1", ".", "2", ".", "3">>,
         NoClause, NoClause)

\* "Filter 6: ON XX Fc 100Hz Gain --3dB": unknown code and malformed gain
LineBadGain ==
    Line("Filter", <<"6">>, "ON", "XX", <<"1", "0", "0">>,
         Clause(<<"-", "-", "3">>), NoClause)

\* "Filter 7: ON LS Fc 50Hz Gain 1dB Q .": malformed Q
LineBadQ ==
    Line("Filter", <<"7">>, "ON", "LS", <<"5", "0">>,
         Clause(<<"1">>), Clause(<<".">>))

\* "Filter 9: ON LS Fc 120Hz Gain -3.5dB": a Gain clause and no Q clause
LineGainOnly ==
    Line("Filter", <<"9">>, "ON", "LS", <<"1", "2", "0">>,
         Clause(<<"-", "3", ".", "5">>), NoClause)

\* "Filter 10: ON LP Fc 80Hz Q 0.7": a Q clause and no Gain clause
LineQOnly ==
    Line("Filter", <<"1", "0">>, "ON", "LP", <<"8", "0">>,
         NoClause, Clause(<<"0", ".", "7">>))

\* the lines a file can hold at position p; the lines with one clause of the
\* two are tried at the first ClauseLinesUpTo positions
LinesAt(p) ==
    {LineSeq(p), LineCanon, LineOff, LineUnknown, LineBadFc, LineBadGain, LineBadQ}
        \cup (IF p <= ClauseLinesUpTo THEN {LineGainOnly, LineQOnly} ELSE {})

\* the files of at most n lines that start at position p
FilesFrom(p, n) ==
    UNION {{f \in [1..k -> UNION {LinesAt(p + i) : i \in 0..(n - 1)}] :
              \A i \in 1..k : f[i] \in LinesAt(p + i - 1)} : k \in 0..n}

----------------------------------------------------------------------------
(* parse_eq_file *)

\* filter_map.get(filter_type, filter_type)
filter_map(code) ==
    CASE code = "LS" -> "LOWSHELF"
      [] code = "PK" -> "PEAKING"
      [] code = "HS" -> "HIGHSHELF"
      [] code = "LP" -> "LOWPASS"
      [] code = "HP" -> "HIGHPASS"
      [] OTHER -> code

\* the member names EQFilterType[...] resolves
EQFilterType == {"LOWSHELF", "PEAKING", "HIGHSHELF", "LOWPASS", "HIGHPASS"}

\* band_pattern with the status token left unchecked
band_pattern_anystatus(l) ==
    /\ l.head = "Filter"
    /\ Len(l.num) > 0 /\ AllIn(l.num, Digits)
    /\ Len(l.fc) > 0 /\ AllIn(l.fc, Digits \cup {"."})

\* band_pattern.match(line.strip()): the prefix up to Hz must match; the
\* codes of the model are all words of capital letters
band_pattern(l) ==
    /\ l.head = "Filter"
    /\ Len(l.num) > 0 /\ AllIn(l.num, Digits)
    /\ l.status = "ON"
    /\ Len(l.fc) > 0 /\ AllIn(l.fc, Digits \cup {"."})

\* match.group(4): the Gain literal, <<>> for None
group4(l) ==
    IF /\ l.gain # NoClause
       /\ Len(l.gain[1]) > 0
       /\ AllIn(l.gain[1], Digits \cup {".", "-"})
    THEN l.gain ELSE <<>>

\* match.group(5): the Q literal, <<>> for None; the Q clause is looked for
\* right after the Gain clause, or after Hz when the line has none
group5(l) ==
    IF /\ l.gain # NoClause => group4(l) # <<>>
       /\ l.q # NoClause
       /\ Len(l.q[1]) > 0
       /\ AllIn(l.q[1], Digits \cup {"."})
    THEN l.q ELSE <<>>

\* lines 55-57: one of the float() calls raises ValueError
FloatRaises(l) ==
    \/ ~FloatOK(l.fc)
    \/ group4(l) # <<>> /\ ~FloatOK(group4(l)[1])
    \/ group5(l) # <<>> /\ ~FloatOK(group5(l)[1])

\* EQBand with the filter number taken as the index, not reduced by one
EQBand_onebased(l) ==
    [index  |-> DigitsToNat(l.num),
     filter |-> filter_map(l.code),
     freq   |-> IntTrunc(FloatTenths(l.fc)),
     gain   |-> IF group4(l) = <<>> THEN <<>> ELSE <<FloatTenths(group4(l)[1])>>,
     q      |-> IF group5(l) = <<>> THEN <<>> ELSE <<FloatTenths(group5(l)[1])>>]

\* EQBand with a missing Gain or Q turned into 0
EQBand_zerodefault(l) ==
    [index  |-> DigitsToNat(l.num) - 1,
     filter |-> filter_map(l.code),
     freq   |-> IntTrunc(FloatTenths(l.fc)),
     gain   |-> IF group4(l) = <<>> THEN <<0>> ELSE <<FloatTenths(group4(l)[1])>>,
     q      |-> IF group5(l) = <<>> THEN <<0>> ELSE <<FloatTenths(group5(l)[1])>>]

\* the EQBand of lines 61-67
EQBand(l) ==
    [index  |-> DigitsToNat(l.num) - 1,
     filter |-> filter_map(l.code),
     freq   |-> IntTrunc(FloatTenths(l.fc)),
     gain   |-> IF group4(l) = <<>> THEN <<>> ELSE <<FloatTenths(group4(l)[1])>>,
     q      |-> IF group5(l) = <<>> THEN <<>> ELSE <<FloatTenths(group5(l)[1])>>]

\* what the loop body does with one line
LineOutcome(l) ==
    IF ~band_pattern(l) THEN "nomatch"
    ELSE IF FloatRaises(l) THEN "raise"
    ELSE IF filter_map(l.code) \notin EQFilterType THEN "skip"
    ELSE "append"

\* the band put at the head of the list
AddBand_front(bs, b) == <<b>> \o bs

\* bands.append(band)
AddBand(bs, b) == Append(bs, b)

\* the cap test off by one
CapReached_late(bs) == Len(bs) = MaxBands + 1

\* len(bands) == 7
CapReached(bs) == Len(bs) = MaxBands

\* the longest file of the run: parse_eq_file alone, or called by main
FileLimit == IF mpc = "idle" THEN MaxLines ELSE MaxMainLines

ParseIdle == ppc = "open" /\ file = <<>> /\ rest = <<>> /\ bands = <<>> /\ perr = "none"

\* open(file_path): the file opens, or open raises and the error is re-raised
Open ==
    /\ ppc = "open"
    /\ \E o \in {"ok", "FileNotFoundError", "OSError"} :
          IF o = "ok"
          THEN ppc' = "scan" /\ perr' = perr
          ELSE ppc' = "raised" /\ perr' = o
    /\ UNCHANGED <<file, rest, bands>>
    /\ UNCHANGED sessionVars
    /\ UNCHANGED mainVars

\* one iteration of `for line in f`
ReadLine ==
    /\ ppc = "scan"
    /\ Len(file) < FileLimit
    /\ \E l \in LinesAt(Len(file) + 1) :
          /\ file' = Append(file, l)
          /\ CASE LineOutcome(l) = "append" ->
                    /\ bands' = AddBand(bands, EQBand(l))
                    /\ perr' = perr
                    /\ IF CapReached(bands')
                       THEN /\ ppc' = "returned"
                            /\ rest' \in FilesFrom(Len(file') + 1, FileLimit - Len(file'))
                       ELSE /\ ppc' = "scan"
                            /\ rest' = rest
               [] LineOutcome(l) = "raise" ->
                    /\ ppc' = "raised"
                    /\ perr' = "ValueError"
                    /\ UNCHANGED <<bands, rest>>
               [] OTHER ->
                    /\ UNCHANGED <<ppc, bands, rest, perr>>
    /\ UNCHANGED sessionVars
    /\ UNCHANGED mainVars

\* reading the next line fails: the error is logged and re-raised
ReadError ==
    /\ ppc = "scan"
    /\ ppc' = "raised"
    /\ perr' = "OSError"
    /\ UNCHANGED <<file, rest, bands>>
    /\ UNCHANGED sessionVars
    /\ UNCHANGED mainVars

\* the file is exhausted: return UserEQ(bands=bands)
EndOfFile ==
    /\ ppc = "scan"
    /\ ppc' = "returned"
    /\ UNCHANGED <<file, rest, bands, perr>>
    /\ UNCHANGED sessionVars
    /\ UNCHANGED mainVars

----------------------------------------------------------------------------
(* connect_and_apply_eq *)

\* hosts: dotted quads as the sequence of their numbers
Hosts == {<<192, 168, 1, 29>>, <<192, 168, 1, 300>>, <<192, 168, 1>>}

\* ipaddress.ip_address(host) accepts the host
ip_address(h) == Len(h) = 4 /\ \A i \in 1..4 : h[i] \in 0..255

\* version strings: the dot-separated segments, each the sequence of its
\* digits; <<>> is a string Version() rejects
Versions ==
    {<< <<"0">>, <<"9", "9">> >>,
     << <<"1">>, <<"8">> >>,
     << <<"1">>, <<"9">> >>,
     << <<"1">>, <<"1", "0">> >>,
     << <<"2">>, <<"0">> >>,
     <<>>}

\* Version("1.9")
MinVersion == << <<"1">>, <<"9">> >>

\* Version(s) raises InvalidVersion
InvalidVersion(s) == Len(s) = 0

\* Version(s).release: the segments as integers
Release(s) == [i \in 1..Len(s) |-> DigitsToNat(s[i])]

\* segment i of a release, padded with zeros
Seg(r, i) == IF i <= Len(r) THEN r[i] ELSE 0

RECURSIVE Dotted(_)
\* the characters of a version string: its segments joined by "."
Dotted(s) ==
    IF Len(s) = 0 THEN <<>>
    ELSE IF Len(s) = 1 THEN s[1]
    ELSE Dotted(SubSeq(s, 1, Len(s) - 1)) \o <<".">> \o s[Len(s)]

\* the order of the characters of a version string: "." sorts before the digits
CharOrd(c) == IF c = "." THEN 0 ELSE DigitVal(c) + 1

\* the version strings compared as strings: a >= b
VersionGE_string(a, b) ==
    LET x == Dotted(a)
        y == Dotted(b)
    IN  \/ Len(y) <= Len(x) /\ SubSeq(x, 1, Len(y)) = y
        \/ \E i \in 1..Len(x) :
              /\ i <= Len(y)
              /\ CharOrd(x[i]) > CharOrd(y[i])
              /\ \A j \in 1..(i - 1) : x[j] = y[j]

\* Version(a) >= Version(b): the releases compared segment by segment
VersionGE(a, b) ==
    LET ra == Release(a)
        rb == Release(b)
        n  == IF Len(ra) >= Len(rb) THEN Len(ra) ELSE Len(rb)
    IN  \/ \A i \in 1..n : Seg(ra, i) = Seg(rb, i)
        \/ \E i \in 1..n :
              /\ Seg(ra, i) > Seg(rb, i)
              /\ \A j \in 1..(i - 1) : Seg(ra, j) = Seg(rb, j)

\* the exceptions an awaited device operation can end with;
\* CancelledError and KeyboardInterrupt (an interrupt delivered while the
\* call is awaited) derive from BaseException, the others from Exception
Raisable ==
    {"TimeoutError", "ClientConnectorError", "ClientError", "OSError",
     "StreamMagicError", "CancelledError", "KeyboardInterrupt"}

\* the classes an exception is an instance of
Bases(e) ==
    CASE e = "TimeoutError" -> {"TimeoutError", "OSError", "Exception"}
      [] e = "ClientConnectorError" ->
            {"ClientConnectorError", "ClientError", "OSError", "Exception"}
      [] e = "ClientError" -> {"ClientError", "Exception"}
      [] e = "OSError" -> {"OSError", "Exception"}
      [] e = "StreamMagicError" -> {"StreamMagicError", "Exception"}
      [] e = "ValueError" -> {"ValueError", "Exception"}
      [] e = "InvalidVersion" -> {"InvalidVersion", "ValueError", "Exception"}
      [] e = "CancelledError" -> {"CancelledError"}
      [] e = "KeyboardInterrupt" -> {"KeyboardInterrupt"}

\* the except clauses of lines 130-144, in order
ExceptClauses ==
    <<"TimeoutError", "ClientConnectorError", "ClientError", "OSError", "Exception">>

\* the handlers without the final `except Exception`
Catches_nolast(e) ==
    \E i \in 1..(Len(ExceptClauses) - 1) : ExceptClauses[i] \in Bases(e)

\* some except clause of the function handles e
Catches(e) == \E i \in 1..Len(ExceptClauses) : ExceptClauses[i] \in Bases(e)

NoFailure == [stage |-> "none", kind |-> "none"]

\* an exception that is recorded while the sequence carries on with the
\* next stage
Raise_carryon(stage, e) ==
    /\ failure' = [stage |-> stage, kind |-> e]
    /\ result' = IF stage \in {"check", "disconnect"} THEN "False" ELSE result
    /\ pc' = CASE stage = "connect" -> "get_info"
               [] stage = "get_info" -> "check"
               [] stage = "set_equalizer_params" -> "disconnect"
               [] OTHER -> "done"

\* an exception of kind e leaves the `async with` block at `stage`: the
\* session is closed, then an except clause returns False or e propagates
Raise(stage, e) ==
    /\ failure' = [stage |-> stage, kind |-> e]
    /\ result' = IF Catches(e) THEN "False" ELSE "raised"
    /\ pc' = "done"

\* the band collections the session is run with
UserEQs ==
    {<<EQBand(LineSeq(1))>>, <<EQBand(LineSeq(1)), EQBand(LineCanon)>>}

\* the host handed to the session without validation
ValidateHost_unchecked ==
    /\ pc = "validate"
    /\ pc' = "session"
    /\ UNCHANGED <<host, user_eq, api_version, calls, applied, failure, result>>
    /\ UNCHANGED parseVars
    /\ UNCHANGED mainVars

\* lines 91-96: validate the host
ValidateHost ==
    /\ pc = "validate"
    /\ IF ip_address(host)
       THEN pc' = "session" /\ UNCHANGED <<failure, result>>
       ELSE /\ failure' = [stage |-> "validate", kind |-> "ValueError"]
            /\ result' = "False"
            /\ pc' = "done"
    /\ UNCHANGED <<host, user_eq, api_version, calls, applied>>
    /\ UNCHANGED parseVars
    /\ UNCHANGED mainVars

\* line 101: async with ClientSession(...) as session
OpenSession ==
    /\ pc = "session"
    /\ calls' = Append(calls, "session_open")
    /\ pc' = "connect"
    /\ UNCHANGED <<host, user_eq, api_version, applied, failure, result>>
    /\ UNCHANGED parseVars
    /\ UNCHANGED mainVars

\* connect() with its failure logged and the sequence carried on
Connect_swallow ==
    /\ pc = "connect"
    /\ calls' = Append(calls, "connect")
    /\ pc' = "get_info"
    /\ UNCHANGED <<host, user_eq, api_version, applied, result>>
    /\ \E o \in {"ok"} \cup Raisable :
          failure' = IF o = "ok" THEN failure ELSE [stage |-> "connect", kind |-> o]
    /\ UNCHANGED parseVars
    /\ UNCHANGED mainVars

\* line 105: await client.connect()
Connect ==
    /\ pc = "connect"
    /\ \E o \in {"ok"} \cup Raisable :
          IF o = "ok"
          THEN /\ calls' = Append(calls, "connect")
               /\ pc' = "get_info"
               /\ UNCHANGED <<failure, result>>
          ELSE /\ calls' = calls \o <<"connect", "session_close">>
               /\ Raise("connect", o)
    /\ UNCHANGED <<host, user_eq, api_version, applied>>
    /\ UNCHANGED parseVars
    /\ UNCHANGED mainVars

\* line 109: info = await client.get_info()
GetInfo ==
    /\ pc = "get_info"
    /\ \E o \in {"ok"} \cup Raisable :
          IF o = "ok"
          THEN /\ calls' = Append(calls, "get_info")
               /\ api_version' \in Versions
               /\ pc' = "check"
               /\ UNCHANGED <<failure, result>>
          ELSE /\ calls' = calls \o <<"get_info", "session_close">>
               /\ api_version' = api_version
               /\ Raise("get_info", o)
    /\ UNCHANGED <<host, user_eq, applied>>
    /\ UNCHANGED parseVars
    /\ UNCHANGED mainVars

\* lines 112 and 119-123: the version check and its else branch
CheckVersion ==
    /\ pc = "check"
    /\ IF InvalidVersion(api_version)
       THEN /\ calls' = Append(calls, "session_close")
            /\ Raise("check", "InvalidVersion")
       ELSE IF VersionGE(api_version, MinVersion)
       THEN /\ pc' = "apply"
            /\ UNCHANGED <<calls, failure, result>>
       ELSE /\ calls' = Append(calls, "session_close")
            /\ result' = "False"
            /\ pc' = "done"
            /\ failure' = failure
    /\ UNCHANGED <<host, user_eq, api_version, applied>>
    /\ UNCHANGED parseVars
    /\ UNCHANGED mainVars

\* the bands submitted one request per band
Apply_perband ==
    /\ pc = "apply"
    /\ \E o \in {"ok"} \cup Raisable :
          IF o = "ok"
          THEN /\ calls' = Append(calls, "set_equalizer_params")
               /\ applied' = applied \o [i \in 1..Len(user_eq) |-> <<user_eq[i]>>]
               /\ pc' = "disconnect"
               /\ UNCHANGED <<failure, result>>
          ELSE /\ calls' = calls \o <<"set_equalizer_params", "session_close">>
               /\ applied' = applied
               /\ Raise("set_equalizer_params", o)
    /\ UNCHANGED <<host, user_eq, api_version>>
    /\ UNCHANGED parseVars
    /\ UNCHANGED mainVars

\* line 117: await client.set_equalizer_params(user_eq)
Apply ==
    /\ pc = "apply"
    /\ \E o \in {"ok"} \cup Raisable :
          IF o = "ok"
          THEN /\ calls' = Append(calls, "set_equalizer_params")
               /\ applied' = Append(applied, user_eq)
               /\ pc' = "disconnect"
               /\ UNCHANGED <<failure, result>>
          ELSE /\ calls' = calls \o <<"set_equalizer_params", "session_close">>
               /\ applied' = applied
               /\ Raise("set_equalizer_params", o)
    /\ UNCHANGED <<host, user_eq, api_version>>
    /\ UNCHANGED parseVars
    /\ UNCHANGED mainVars

\* lines 125-128: await client.disconnect(), then return True
Disconnect ==
    /\ pc = "disconnect"
    /\ calls' = calls \o <<"disconnect", "session_close">>
    /\ \E o \in {"ok"} \cup Raisable :
          IF o = "ok"
          THEN /\ result' = "True"
               /\ pc' = "done"
               /\ failure' = failure
          ELSE Raise("disconnect", o)
    /\ UNCHANGED <<host, user_eq, api_version, applied>>
    /\ UNCHANGED parseVars
    /\ UNCHANGED mainVars

SessionIdle ==
    /\ pc = "idle" /\ host = <<>> /\ user_eq = <<>> /\ api_version = <<>>
    /\ calls = <<>> /\ applied = <<>> /\ failure = NoFailure /\ result = "pending"

MainIdle ==
    /\ mpc = "idle" /\ dry_run = FALSE /\ exists = TRUE
    /\ main_ret = "pending" /\ exit_code = "pending"

----------------------------------------------------------------------------
(* Specifications *)

\* parse_eq_file run on every file of at most MaxLines lines
InitParse == ParseIdle /\ SessionIdle /\ MainIdle

NextParse == Open \/ ReadLine \/ ReadError \/ EndOfFile

SpecParse == InitParse /\ [][NextParse]_vars

\* connect_and_apply_eq run against every device behaviour
InitSession ==
    /\ ppc = "idle" /\ file = <<>> /\ rest = <<>> /\ bands = <<>> /\ perr = "none"
    /\ pc = "validate"
    /\ host \in Hosts
    /\ user_eq \in UserEQs
    /\ api_version = <<>>
    /\ calls = <<>>
    /\ applied = <<>>
    /\ failure = NoFailure
    /\ result = "pending"
    /\ MainIdle

NextSession ==
    ValidateHost \/ OpenSession \/ Connect \/ GetInfo \/ CheckVersion \/ Apply \/ Disconnect

SpecSession == InitSession /\ [][NextSession]_vars

----------------------------------------------------------------------------
(* main and cli *)

\* lines 150-157: the file is looked up; parse_eq_file is called if it exists
MainStart ==
    /\ mpc = "start"
    /\ IF exists
       THEN /\ mpc' = "parse"
            /\ ppc' = "open"
            /\ main_ret' = main_ret
       ELSE /\ mpc' = "cli"
            /\ ppc' = ppc
            /\ main_ret' = "1"
    /\ UNCHANGED <<file, rest, bands, perr, dry_run, exists, exit_code>>
    /\ UNCHANGED sessionVars

\* lines 162-180 and 192-194: parse_eq_file has returned or raised
MainParsed ==
    /\ mpc = "parse"
    /\ ppc \in {"returned", "raised"}
    /\ IF ppc = "raised" \/ bands = <<>>
       THEN /\ main_ret' = "1"
            /\ mpc' = "cli"
            /\ UNCHANGED <<pc, user_eq>>
       ELSE IF dry_run
       THEN /\ main_ret' = "0"
            /\ mpc' = "cli"
            /\ UNCHANGED <<pc, user_eq>>
       ELSE /\ main_ret' = main_ret
            /\ mpc' = "session"
            /\ pc' = "validate"
            /\ user_eq' = bands
    /\ UNCHANGED <<host, api_version, calls, applied, failure, result>>
    /\ UNCHANGED <<dry_run, exists, exit_code>>
    /\ UNCHANGED parseVars

\* the result of connect_and_apply_eq left untested
MainSessionDone_nosuccesstest ==
    /\ mpc = "session"
    /\ pc = "done"
    /\ main_ret' = IF result \in {"True", "False"} THEN "0"
                   ELSE IF failure.kind = "KeyboardInterrupt" THEN "1" ELSE "raised"
    /\ mpc' = "cli"
    /\ UNCHANGED <<dry_run, exists, exit_code>>
    /\ UNCHANGED parseVars
    /\ UNCHANGED sessionVars

\* lines 180-191: connect_and_apply_eq has returned, or an interrupt left it
MainSessionDone ==
    /\ mpc = "session"
    /\ pc = "done"
    /\ main_ret' =
          CASE result = "True" -> "0"
            [] result = "False" -> "1"
            [] result = "raised" /\ failure.kind = "KeyboardInterrupt" -> "1"
            [] OTHER -> "raised"
    /\ mpc' = "cli"
    /\ UNCHANGED <<dry_run, exists, exit_code>>
    /\ UNCHANGED parseVars
    /\ UNCHANGED sessionVars

\* lines 233-244: sys.exit(exit_code); asyncio.run turns a cancelled main
\* into KeyboardInterrupt, for which cli exits with 1
Cli ==
    /\ mpc = "cli"
    /\ exit_code' = IF main_ret = "raised" THEN "1" ELSE main_ret
    /\ mpc' = "done"
    /\ UNCHANGED <<dry_run, exists, main_ret>>
    /\ UNCHANGED parseVars
    /\ UNCHANGED sessionVars

\* main run on every file of at most MaxMainLines lines, with and without
\* --dry-run, against every host and device behaviour
InitMain ==
    /\ ppc = "idle" /\ file = <<>> /\ rest = <<>> /\ bands = <<>> /\ perr = "none"
    /\ pc = "idle"
    /\ host \in Hosts
    /\ user_eq = <<>>
    /\ api_version = <<>>
    /\ calls = <<>>
    /\ applied = <<>>
    /\ failure = NoFailure
    /\ result = "pending"
    /\ mpc = "start"
    /\ dry_run \in BOOLEAN
    /\ exists \in BOOLEAN
    /\ main_ret = "pending"
    /\ exit_code = "pending"

NextMain ==
    \/ MainStart \/ Open \/ ReadLine \/ ReadError \/ EndOfFile \/ MainParsed
    \/ ValidateHost \/ OpenSession \/ Connect \/ GetInfo \/ CheckVersion
    \/ Apply \/ Disconnect \/ MainSessionDone \/ Cli

SpecMain == InitMain /\ [][NextMain]_vars

\* connect_and_apply_eq when every awaited operation eventually returns or fails
SpecSessionFair == SpecSession /\ WF_vars(NextSession)

----------------------------------------------------------------------------
(* Properties of connect_and_apply_eq, checked under SpecSession *)

InCalls(op) == \E i \in 1..Len(calls) : calls[i] = op

\* connect() returned normally
Connected == InCalls("connect") /\ failure.stage # "connect"

\* get_info() returned a version Version() parses and that is below 1.9
VersionTooOld ==
    /\ InCalls("get_info") /\ failure.stage # "get_info"
    /\ ~InvalidVersion(api_version)
    /\ ~VersionGE(api_version, MinVersion)

\* C1: when connect and get_info succeed and the device reports an API
\* version below 1.9, the function returns False, set_equalizer_params is
\* never called, and client.disconnect() is attempted before the return.
C1_TooOldDisconnects ==
    (pc = "done" /\ VersionTooOld) =>
        /\ result = "False"
        /\ ~InCalls("set_equalizer_params")
        /\ InCalls("disconnect")

\* C2: on every execution in which client.connect() succeeded,
\* client.disconnect() is attempted before the function returns, also when
\* get_info or set_equalizer_params raises.
C2_DisconnectAlways ==
    (pc = "done" /\ Connected) => InCalls("disconnect")

\* C3: for every failure category derived from Exception (invalid address,
\* timeout, connector error, client error, OS error, any other exception)
\* raised at any stage, the function returns False and nothing propagates.
C3_NeverRaises ==
    (pc = "done" /\ failure # NoFailure /\ "Exception" \in Bases(failure.kind)) =>
        result = "False"

\* a library error raised by disconnect() ended in a False result
C3_Witness ==
    /\ pc = "done"
    /\ failure = [stage |-> "disconnect", kind |-> "StreamMagicError"]
    /\ result = "False"

\* C4: when client.connect() fails at the transport level, the function
\* returns False, neither get_info nor set_equalizer_params is called, and
\* nothing is thrown out of the function.
C4_ConnectFailureStops ==
    (/\ failure.stage = "connect"
     /\ failure.kind \in {"TimeoutError", "ClientConnectorError", "OSError"}) =>
        /\ ~InCalls("get_info")
        /\ ~InCalls("set_equalizer_params")
        /\ pc = "done"
        /\ result = "False"

\* an unreachable device: connect was the only device operation
C4_Witness ==
    /\ pc = "done"
    /\ failure = [stage |-> "connect", kind |-> "ClientConnectorError"]
    /\ calls = <<"session_open", "connect", "session_close">>
    /\ result = "False"

\* C5: when connect, the version check and set_equalizer_params succeeded
\* and only client.disconnect() raised, the function still returns True.
C5_DisconnectErrorCosmetic ==
    (/\ pc = "done"
     /\ applied # <<>>
     /\ failure.stage = "disconnect"
     /\ "Exception" \in Bases(failure.kind)) =>
        result = "True"

----------------------------------------------------------------------------
(* Properties of parse_eq_file, checked under SpecParse *)

\* the whole file: what was read, then what was not
WholeFile == file \o rest

RECURSIVE Records(_)
\* the band records of the lines of f that construct one, in file order
Records(f) ==
    IF f = <<>> THEN <<>>
    ELSE LET l == f[Len(f)]
             before == Records(SubSeq(f, 1, Len(f) - 1))
         IN  IF LineOutcome(l) = "append"
             THEN before \o <<EQBand(l)>>
             ELSE before

\* the first n elements of s, or all of s
Take(s, n) == SubSeq(s, 1, IF Len(s) < n THEN Len(s) ELSE n)

\* the code of line l is no abbreviation and no EQFilterType name
UnknownCode(l) == filter_map(l.code) \notin EQFilterType

\* C6: the band list never holds more than 7 records, at any point of the
\* scan and on return, and once it holds 7 no further line is read.
C6_CapAtSeven ==
    /\ [](Len(bands) <= 7)
    /\ [][Len(bands) = 7 => file' = file]_vars

\* the scan stopped at 7 bands with a line that would have matched left unread
C6_Witness ==
    /\ ppc = "returned"
    /\ Len(bands) = 7
    /\ \E i \in 1..Len(rest) : LineOutcome(rest[i]) = "append"

\* C7: parse_eq_file returns the first 7 (or all, if fewer) successfully
\* constructed band records in the order of their lines, not sorted by index.
C7_FirstSevenInFileOrder ==
    ppc = "returned" => bands = Take(Records(WholeFile), 7)

\* 8 valid lines numbered 1..8: the result has the indices 0..6 in that order
C7_Witness ==
    /\ ppc = "returned"
    /\ WholeFile = [i \in 1..8 |-> LineSeq(i)]
    /\ [i \in 1..Len(bands) |-> bands[i].index] = <<0, 1, 2, 3, 4, 5, 6>>

\* C8: parse_eq_file never raises because of line content; only failure to
\* open or read the file raises.
C8_OnlyFileAccessRaises ==
    ppc = "raised" => perr \in {"FileNotFoundError", "OSError"}

\* C9: a line whose filter code is neither an abbreviation nor a canonical
\* name never contributes a record and never aborts the scan.
C9_UnknownCodeSkipped ==
    /\ Len(bands) <= Cardinality({i \in 1..Len(file) : ~UnknownCode(file[i])})
    /\ \A i \in 1..Len(bands) : bands[i].filter \in EQFilterType
    /\ (ppc = "raised" /\ perr = "ValueError") => ~UnknownCode(file[Len(file)])

\* C10: reading a line whose status token is not ON leaves the band list as
\* it is, whatever the rest of the line, and so does not count toward the cap.
C10_OffNeverContributes ==
    [][(Len(file') = Len(file) + 1 /\ file'[Len(file')].status # "ON") =>
          (bands' = bands /\ ppc' = "scan")]_vars

\* the cap was reached by 7 enabled lines with a disabled line among them
C10_Witness ==
    /\ ppc = "returned"
    /\ Len(bands) = 7
    /\ Len(file) = 8
    /\ \E i \in 1..Len(file) : file[i].status = "OFF"

----------------------------------------------------------------------------
(* Properties of main, checked under SpecMain *)

\* line l constructs a band record
ValidBandLine(l) == LineOutcome(l) = "append"

\* the file was opened and read without an I/O error
FileAccessOK ==
    exists /\ ppc \in {"returned", "raised"} /\ perr \notin {"FileNotFoundError", "OSError"}

\* C11: when the file yields zero valid bands, parse_eq_file returns an
\* empty collection without raising, and main returns 1 without ever calling
\* connect_and_apply_eq.
C11_NoBandsNoConnection ==
    (/\ mpc = "done"
     /\ FileAccessOK
     /\ \A i \in 1..Len(WholeFile) : ~ValidBandLine(WholeFile[i])) =>
        /\ ppc = "returned"
        /\ bands = <<>>
        /\ main_ret = "1"
        /\ pc = "idle"

\* C12: in dry-run mode with a file that yields at least one valid band,
\* main returns 0 and connect_and_apply_eq is never invoked; in no dry-run
\* execution, whatever the file, does any device operation occur.
C12_DryRunNeverConnects ==
    /\ (/\ mpc = "done"
        /\ dry_run
        /\ FileAccessOK
        /\ \E i \in 1..Len(WholeFile) : ValidBandLine(WholeFile[i])) =>
           (main_ret = "0" /\ pc = "idle")
    /\ dry_run => (calls = <<>> /\ pc = "idle")

\* the settings were fully applied: connect_and_apply_eq returned True
FullSuccess == result = "True"

\* a dry run parsed at least one band
DryRunParsed == dry_run /\ ppc = "returned" /\ bands # <<>>

\* C13 as stated: main returns 0 exactly when the settings were fully applied
\* or a dry run parsed at least one band, and returns 1 on every other
\* outcome, user interrupt included.
C13_MainReturns ==
    mpc = "done" =>
        IF FullSuccess \/ DryRunParsed THEN main_ret = "0" ELSE main_ret = "1"

\* C13 as amended: main returns 0 exactly when the settings were fully
\* applied or a dry run parsed at least one band; every other outcome ends in
\* exit code 1: main returns 1, or a task cancellation delivered at an await
\* leaves main as an exception and cli exits with 1.
C13_ExitCode ==
    mpc = "done" =>
        IF FullSuccess \/ DryRunParsed
        THEN main_ret = "0" /\ exit_code = "0"
        ELSE /\ exit_code = "1"
             /\ \/ main_ret = "1"
                \/ main_ret = "raised" /\ failure.kind = "CancelledError"

\* a cancellation during set_equalizer_params: main raised, the exit code is 1
C13_Witness ==
    /\ mpc = "done"
    /\ failure = [stage |-> "set_equalizer_params", kind |-> "CancelledError"]
    /\ main_ret = "raised"
    /\ exit_code = "1"

----------------------------------------------------------------------------
(* Further properties of parse_eq_file, checked under SpecParse *)

\* the scan has just read a line that yields a record
ReadsValidLine == Len(file') = Len(file) + 1 /\ ValidBandLine(file'[Len(file')])

\* C14: every line that yields a record adds its own record to the list,
\* whose index is the captured filter number minus one, whatever records the
\* list holds already: repeated numbers are not deduplicated and
\* non-sequential numbers are kept as they appear.
C14_IndexIsNumberMinusOne ==
    [][ReadsValidLine =>
          /\ Len(bands') = Len(bands) + 1
          /\ SubSeq(bands', 1, Len(bands)) = bands
          /\ bands'[Len(bands')].index + 1 = DigitsToNat(file'[Len(file')].num)]_vars

\* "Filter 3", "Filter 2", "Filter 3": two records of index 2 around index 1
C14_Witness ==
    /\ ppc = "returned"
    /\ file = <<LineCanon, LineSeq(2), LineCanon>>
    /\ [i \in 1..Len(bands) |-> bands[i].index] = <<2, 1, 2>>

----------------------------------------------------------------------------
(* Further properties of connect_and_apply_eq *)

\* the interrupts: exceptions that do not derive from Exception
Interrupts == {"CancelledError", "KeyboardInterrupt"}

\* C15: an interrupt delivered at a suspension point after client.connect()
\* succeeded (get_info, set_equalizer_params, disconnect) still runs the
\* disconnect cleanup before control leaves the function.
C15_InterruptStillDisconnects ==
    (pc = "done" /\ Connected /\ failure.kind \in Interrupts) =>
        InCalls("disconnect")

\* the operations on the device, without the opening and closing of the session
IsDeviceOp(c) == c \notin {"session_open", "session_close"}

DeviceCalls == SelectSeq(calls, IsDeviceOp)

IsPrefix(a, b) == Len(a) <= Len(b) /\ a = SubSeq(b, 1, Len(a))

\* C16: the device operations occur in the order connect, get_info,
\* set_equalizer_params, disconnect, each at most once;
\* set_equalizer_params is called only after get_info returned a version
\* that passed the check, and the whole band collection goes in that one call.
C16_OneOrderedPass ==
    /\ IsPrefix(DeviceCalls,
                <<"connect", "get_info", "set_equalizer_params", "disconnect">>)
    /\ InCalls("set_equalizer_params") =>
          /\ InCalls("get_info")
          /\ ~InvalidVersion(api_version)
          /\ VersionGE(api_version, MinVersion)
    /\ applied \in {<<>>, <<user_eq>>}
    /\ applied # <<>> => InCalls("set_equalizer_params")

\* a full pass with a collection of two bands submitted in one request
C16_Witness ==
    /\ pc = "done"
    /\ result = "True"
    /\ DeviceCalls = <<"connect", "get_info", "set_equalizer_params", "disconnect">>
    /\ Len(user_eq) = 2
    /\ applied = <<user_eq>>

\* the version check was made on a version string Version() parses
Checked ==
    /\ InCalls("get_info") /\ failure.stage # "get_info"
    /\ pc # "check"
    /\ ~InvalidVersion(api_version)

\* the check let the device through to set_equalizer_params
Accepted == pc \in {"apply", "disconnect"} \/ InCalls("set_equalizer_params")

\* (major, minor) >= (1, 9), the components compared as numbers
AtLeastFloor(v) ==
    LET major == DigitsToNat(v[1])
        minor == IF Len(v) >= 2 THEN DigitsToNat(v[2]) ELSE 0
    IN  major > 1 \/ (major = 1 /\ minor >= 9)

\* "1.9", "1.10", "2.0"
AcceptedExamples ==
    {<< <<"1">>, <<"9">> >>, << <<"1">>, <<"1", "0">> >>, << <<"2">>, <<"0">> >>}

\* "1.8", "0.99"
RejectedExamples ==
    {<< <<"1">>, <<"8">> >>, << <<"0">>, <<"9", "9">> >>}

\* C17: the version check accepts a device exactly when its (major, minor)
\* is at least (1, 9) as numbers: 1.9, 1.10 and 2.0 are accepted, 1.8 and
\* 0.99 are rejected.
C17_NumericVersionCheck ==
    Checked =>
        /\ Accepted <=> AtLeastFloor(api_version)
        /\ api_version \in AcceptedExamples => Accepted
        /\ api_version \in RejectedExamples =>
              (~Accepted /\ pc = "done" /\ result = "False")

\* version 1.10 was let through and the settings were sent
C17_Witness ==
    /\ api_version = << <<"1">>, <<"1", "0">> >>
    /\ InCalls("set_equalizer_params")
    /\ applied = <<user_eq>>

\* C18: a host that does not parse as an IP address is rejected before any
\* connection attempt: connect_and_apply_eq performs no session or device
\* operation and returns False, and main returns exit code 1.
C18_InvalidHostRejected ==
    (pc # "idle" /\ ~ip_address(host)) =>
        /\ calls = <<>>
        /\ pc = "validate" \/ (pc = "done" /\ result = "False")
        /\ mpc \in {"cli", "done"} => main_ret = "1"
        /\ mpc = "done" => exit_code = "1"

\* main was run on a file with bands and the host 192.168.1.300
C18_Witness ==
    /\ mpc = "done"
    /\ host = <<192, 168, 1, 300>>
    /\ bands # <<>>
    /\ pc = "done"
    /\ calls = <<>>
    /\ main_ret = "1"

\* C19: a record has no gain exactly when its line has no Gain clause and no
\* q exactly when its line has no Q clause, each independently of the other;
\* "Gain 0dB" gives the gain 0, which differs from an absent gain.
C19_AbsentIsNotZero ==
    [][ReadsValidLine =>
          LET l == file'[Len(file')]
              b == bands'[Len(bands')]
          IN  /\ b.gain = <<>> <=> l.gain = NoClause
              /\ b.q = <<>> <=> l.q = NoClause
              /\ l.gain = Clause(<<"0">>) => b.gain = <<0>>]_vars

\* Q without Gain, "Gain 0dB" with Q, and neither clause
C19_Witness ==
    /\ ppc = "returned"
    /\ file = <<LineQOnly, LineSeq(2), LineCanon>>
    /\ bands[1].gain = <<>> /\ bands[1].q = <<7>>
    /\ bands[2].gain = <<0>> /\ bands[2].q = <<15>>
    /\ bands[3].gain = <<>> /\ bands[3].q = <<>>

\* the stages of connect_and_apply_eq in program order
StageRank(p) ==
    CASE p = "validate" -> 0
      [] p = "session" -> 1
      [] p = "connect" -> 2
      [] p = "get_info" -> 3
      [] p = "check" -> 4
      [] p = "apply" -> 5
      [] p = "disconnect" -> 6
      [] p = "done" -> 7
      [] OTHER -> 0 - 1

\* C20: when every awaited operation eventually returns or fails, the
\* function eventually terminates, with a boolean result unless an interrupt
\* ended it; no stage is revisited; and failure is absorbing: once a stage
\* has failed, no further operation is issued.
C20_TerminatesFailureAbsorbing ==
    /\ <>(pc = "done")
    /\ [](pc = "done" => (result \in {"True", "False"} \/ failure.kind \in Interrupts))
    /\ [][pc' # pc => StageRank(pc') > StageRank(pc)]_vars
    /\ [][failure # NoFailure => (calls' = calls /\ pc' = pc /\ result' = result)]_vars

\* get_info timed out: the function ended with False after connect, get_info
C20_Witness ==
    /\ pc = "done"
    /\ failure = [stage |-> "get_info", kind |-> "TimeoutError"]
    /\ result = "False"
    /\ DeviceCalls = <<"connect", "get_info">>

====
